---- MODULE Spec2Model ----
(***************************************************************************)
(* Model of the Airbnb MCP server (src/index.ts): the in-memory cookie jar, *)
(* the browser-emulating fetch with manual redirect handling, the robots   *)
(* policy check, the start-up session initialisation and the two tool      *)
(* pipelines (airbnb_search, airbnb_listing_details).                      *)
(*                                                                         *)
(* Strings whose contents the code inspects (Set-Cookie entries, the       *)
(* Cookie header) are sequences of one-character strings, so that split,   *)
(* trim and join are computed as the code computes them.  URL paths are    *)
(* sequences of path segments.                                             *)
(***************************************************************************)
EXTENDS Integers, Sequences, FiniteSets, TLC

(***************************************************************************)
(* String helpers (JavaScript String.prototype.split / trim / Array.join). *)
(***************************************************************************)

RECURSIVE IndexFrom(_, _, _)
\* first index >= i of character c in s, 0 when absent
IndexFrom(s, c, i) ==
  IF i > Len(s) THEN 0
  ELSE IF s[i] = c THEN i
  ELSE IndexFrom(s, c, i + 1)

\* s.indexOf(c), counted from 1; 0 when absent
IndexOf(s, c) == IndexFrom(s, c, 1)

RECURSIVE Split(_, _)
\* s.split(c): the pieces of s between the occurrences of c
Split(s, c) ==
  LET i == IndexOf(s, c)
  IN  IF i = 0 THEN << s >>
      ELSE << SubSeq(s, 1, i - 1) >> \o Split(SubSeq(s, i + 1, Len(s)), c)

RECURSIVE Trim(_)
\* s.trim(): s without leading and trailing blanks
Trim(s) ==
  IF s = << >> THEN s
  ELSE IF Head(s) = " " THEN Trim(Tail(s))
  ELSE IF s[Len(s)] = " " THEN Trim(SubSeq(s, 1, Len(s) - 1))
  ELSE s

RECURSIVE Join(_, _)
\* parts.join(sep)
Join(parts, sep) ==
  IF parts = << >> THEN << >>
  ELSE IF Len(parts) = 1 THEN parts[1]
  ELSE parts[1] \o sep \o Join(Tail(parts), sep)

(***************************************************************************)
(* Cookie jar: a Map, kept as the sequence of its <<name, value>> entries  *)
(* in insertion order.                                                     *)
(***************************************************************************)

\* Map.prototype.has
MapHas(jar, name) == \E i \in 1..Len(jar) : jar[i][1] = name

\* Map.prototype.get (Undefined when absent)
Undefined == << "undefined" >>
MapGet(jar, name) ==
  IF MapHas(jar, name)
  THEN jar[CHOOSE i \in 1..Len(jar) : jar[i][1] = name][2]
  ELSE Undefined

\* Map.prototype.set: overwrite in place, or append a new entry
MapSet(jar, name, value) ==
  IF MapHas(jar, name)
  THEN [i \in 1..Len(jar) |-> IF jar[i][1] = name THEN << name, value >> ELSE jar[i]]
  ELSE Append(jar, << name, value >>)

\* const [mainPart] = cookieString.split(';');
\* const [name, value] = mainPart.split('='): the first two pieces only
CookiePair(cookieString) ==
  LET mainPart == Split(cookieString, ";")[1]
      parts == Split(mainPart, "=")
  IN  [name |-> parts[1],
       value |-> IF Len(parts) >= 2 THEN parts[2] ELSE Undefined]

\* if (name && value): both defined and non-empty
Truthy(pair) ==
  pair.name # << >> /\ pair.value # Undefined /\ pair.value # << >>

\* Set-Cookie entries the site sends: "a=1", "b=2; Path=/", "a=3", "b=4="
CookieEntries ==
  { << "a", "=", "1" >>,
    << "b", "=", "2", ";", " ", "P", "a", "t", "h", "=", "/" >>,
    << "a", "=", "3" >>,
    << "b", "=", "4", "=" >> }

\* further entries for the jar on its own:
\* "a=", " c = 5 ; S", "c", "=6", "c=7"
JarEntries ==
  CookieEntries \cup
  { << "a", "=" >>,
    << " ", "c", " ", "=", " ", "5", " ", ";", " ", "S" >>,
    << "c" >>,
    << "=", "6" >>,
    << "c", "=", "7" >> }

\* CookiePair and Truthy, tabulated over the entries the site sends
Parsed == [e \in JarEntries |-> [pair |-> CookiePair(e), truthy |-> Truthy(CookiePair(e))]]

\* one iteration of the loop of parseCookies
ParseOne(jar, cookieString) ==
  LET pair == Parsed[cookieString].pair
  IN  IF Parsed[cookieString].truthy
      THEN MapSet(jar, Trim(pair.name), Trim(pair.value))
      ELSE jar

RECURSIVE parseCookies(_, _)
\* parseCookies(response): the jar after all Set-Cookie entries of a response
parseCookies(jar, cookieHeader) ==
  IF cookieHeader = << >> THEN jar
  ELSE parseCookies(ParseOne(jar, Head(cookieHeader)), Tail(cookieHeader))

\* getCookieString(): "name=value" entries joined by "; "
getCookieString(jar) ==
  Join([i \in 1..Len(jar) |-> jar[i][1] \o << "=" >> \o jar[i][2]], << ";", " " >>)

(***************************************************************************)
(* Bounds and input alphabets.                                             *)
(***************************************************************************)

\* longest Set-Cookie list a response carries
MaxSetCookie == 2

\* all sequences over S of length at most n
SeqUpTo(S, n) == UNION { [1..k -> S] : k \in 0..n }

SetCookieLists == SeqUpTo(CookieEntries, MaxSetCookie)
JarSetCookieLists == SeqUpTo(JarEntries, MaxSetCookie)

Statuses == { 200, 301, 302, 303, 307, 308, 404, 500 }

(***************************************************************************)
(* URLs: a host, a path (sequence of segments) and the query (sequence of   *)
(* <<key, value>> pairs, in the order of searchParams.append).  A Location *)
(* header is absent, relative (empty host) or absolute.                    *)
(***************************************************************************)

BASE_HOST == "www.airbnb.ca"
BASE_URL == [host |-> BASE_HOST, path |-> << >>, search |-> << >>]
RobotsUrl == [host |-> BASE_HOST, path |-> << "robots.txt" >>, search |-> << >>]

NoLocation == [host |-> "", path |-> << "null" >>, search |-> << >>]
RelativeLogin == [host |-> "", path |-> << "login" >>, search |-> << >>]
Locations ==
  { NoLocation,
    RelativeLogin,
    [host |-> "www.airbnb.com", path |-> << >>, search |-> << >>] }

\* new URL(location, url)
ResolveUrl(location, url) ==
  [host |-> IF location.host = "" THEN url.host ELSE location.host,
   path |-> location.path,
   search |-> location.search]

\* new URL(url).origin
Origin(url) == [host |-> url.host, path |-> << >>, search |-> << >>]

\* what the caller of fetch can observe of a response besides its cookies
View(r) == [status |-> r.status, location |-> r.location]
NoResponse == [status |-> 0, location |-> NoLocation]

(***************************************************************************)
(* fetchWithBrowserHeaders                                                 *)
(***************************************************************************)

MAX_REDIRECTS == 5

NoOptions == [headers |-> << >>]
NoHeaders == << >>
NoFetch ==
  [phase |-> "none", url |-> BASE_URL, options |-> NoOptions,
   redirectCount |-> 0, headers |-> NoHeaders]

\* a mutant of BuildHeaders: the Cookie header is never attached
BuildHeadersNoCookie(url, jar) ==
  [Host |-> url.host, Referer |-> Origin(url), Origin |-> Origin(url)]

\* the header set built before the request (lines 226-238)
BuildHeaders(url, jar) ==
  LET base == [Host |-> url.host, Referer |-> Origin(url), Origin |-> Origin(url)]
      cookieString == getCookieString(jar)
  IN  IF cookieString # << >>
      THEN base @@ [Cookie |-> cookieString]
      ELSE base

\* a mutant of BeginFetch: cookies are attached to the first request only
BeginFetchFirstHopCookies(url, options, redirectCount, jar) ==
  [phase |-> "delay", url |-> url, options |-> options,
   redirectCount |-> redirectCount,
   headers |-> IF redirectCount = 0 THEN BuildHeaders(url, jar)
               ELSE BuildHeaders(url, << >>)]

\* entry of fetchWithBrowserHeaders up to its first await (the pacing delay)
BeginFetch(url, options, redirectCount, jar) ==
  [phase |-> "delay", url |-> url, options |-> options,
   redirectCount |-> redirectCount, headers |-> BuildHeaders(url, jar)]

\* headers: {...headers, ...options.headers}
RequestHeaders(fs) == fs.options.headers @@ fs.headers

\* the Cookie header of a header set, empty when there is none
CookieOf(headers) == IF "Cookie" \in DOMAIN headers THEN headers.Cookie ELSE << >>

\* a mutant of IsRedirect that also follows 303 and 308
IsRedirectAll3xx(status) == status \in { 301, 302, 303, 307, 308 }

IsRedirect(status) == status = 307 \/ status = 302 \/ status = 301

Thrown(kind, jar, parsed) ==
  [kind |-> "throw", error |-> kind, jar |-> jar, parsed |-> parsed,
   response |-> NoResponse, next |-> NoFetch]

\* a mutant of HandleResponse: the depth test is off by one
HandleResponseOffByOne(fs, r, jar) ==
  LET jar2 == parseCookies(jar, r.setCookie)
  IN  IF IsRedirect(r.status)
      THEN IF fs.redirectCount > MAX_REDIRECTS
           THEN Thrown("TooManyRedirects", jar2, 1)
           ELSE IF r.location = NoLocation
           THEN Thrown("MissingLocation", jar2, 1)
           ELSE [kind |-> "recurse", error |-> "none", jar |-> jar2, parsed |-> 1,
                 response |-> NoResponse,
                 next |-> BeginFetch(ResolveUrl(r.location, fs.url), fs.options,
                                     fs.redirectCount + 1, jar2)]
      ELSE [kind |-> "return", error |-> "none", jar |-> jar2, parsed |-> 1,
            response |-> View(r), next |-> NoFetch]

\* a mutant of HandleResponse: cookies are recorded only when the call goes on
HandleResponseParseLate(fs, r, jar) ==
  LET jar2 == parseCookies(jar, r.setCookie)
  IN  IF IsRedirect(r.status)
      THEN IF fs.redirectCount >= MAX_REDIRECTS
           THEN Thrown("TooManyRedirects", jar, 0)
           ELSE IF r.location = NoLocation
           THEN Thrown("MissingLocation", jar, 0)
           ELSE [kind |-> "recurse", error |-> "none", jar |-> jar2, parsed |-> 1,
                 response |-> NoResponse,
                 next |-> BeginFetch(ResolveUrl(r.location, fs.url), fs.options,
                                     fs.redirectCount + 1, jar2)]
      ELSE [kind |-> "return", error |-> "none", jar |-> jar2, parsed |-> 1,
            response |-> View(r), next |-> NoFetch]

\* a mutant of HandleResponse: a redirect without Location is returned as is
HandleResponseNoLocationCheck(fs, r, jar) ==
  LET jar2 == parseCookies(jar, r.setCookie)
  IN  IF IsRedirect(r.status) /\ r.location # NoLocation
      THEN IF fs.redirectCount >= MAX_REDIRECTS
           THEN Thrown("TooManyRedirects", jar2, 1)
           ELSE [kind |-> "recurse", error |-> "none", jar |-> jar2, parsed |-> 1,
                 response |-> NoResponse,
                 next |-> BeginFetch(ResolveUrl(r.location, fs.url), fs.options,
                                     fs.redirectCount + 1, jar2)]
      ELSE [kind |-> "return", error |-> "none", jar |-> jar2, parsed |-> 1,
            response |-> View(r), next |-> NoFetch]

\* the rest of fetchWithBrowserHeaders once the response r has arrived
\* (lines 252-278): record cookies, then throw, recurse or return
HandleResponse(fs, r, jar) ==
  LET jar2 == parseCookies(jar, r.setCookie)
  IN  IF IsRedirect(r.status)
      THEN IF fs.redirectCount >= MAX_REDIRECTS
           THEN Thrown("TooManyRedirects", jar2, 1)
           ELSE IF r.location = NoLocation
           THEN Thrown("MissingLocation", jar2, 1)
           ELSE [kind |-> "recurse", error |-> "none", jar |-> jar2, parsed |-> 1,
                 response |-> NoResponse,
                 next |-> BeginFetch(ResolveUrl(r.location, fs.url), fs.options,
                                     fs.redirectCount + 1, jar2)]
      ELSE [kind |-> "return", error |-> "none", jar |-> jar2, parsed |-> 1,
            response |-> View(r), next |-> NoFetch]

(***************************************************************************)
(* Robots policy.  A robots.txt body is the sequence of its Disallow path  *)
(* prefixes; the empty body is the empty string.                           *)
(***************************************************************************)

RobotsBodies ==
  { << >>,
    << << "s" >> >>,
    << << "rooms" >> >>,
    << << "account" >> >> }

IsPrefix(pre, path) ==
  Len(pre) <= Len(path) /\ SubSeq(path, 1, Len(pre)) = pre

\* robots.isAllowed(path, SESSION_USER_AGENT) of the robots-parser library
RobotsIsAllowed(content, path) ==
  ~ \E i \in 1..Len(content) : IsPrefix(content[i], path)

isPathAllowed(content, path) ==
  IF content = << >> THEN TRUE
  ELSE RobotsIsAllowed(content, path)

\* a mutant of PolicyBlocks that consults the policy whatever the caller asked
PolicyBlocksAlways(ignoreRobotsText, content, path) ==
  ~ isPathAllowed(content, path)

\* if (!ignoreRobotsText && !isPathAllowed(path))
PolicyBlocks(ignoreRobotsText, content, path) ==
  ~ ignoreRobotsText /\ ~ isPathAllowed(content, path)

(***************************************************************************)
(* JSON values: null, undefined, strings, arrays and objects; an object is *)
(* the sequence of its <<key, value>> entries in insertion order.          *)
(***************************************************************************)

JNull == [t |-> "null"]
JUndefined == [t |-> "undefined"]
JStr(x) == [t |-> "str", s |-> x]
JArr(elements) == [t |-> "arr", a |-> elements]
JObj(entries) == [t |-> "obj", o |-> entries]

\* value[key], undefined when value is not an object or has no such key
ObjGet(value, key) ==
  IF value.t = "obj" /\ MapHas(value.o, key) THEN MapGet(value.o, key)
  ELSE JUndefined

RECURSIVE ObjAssign(_, _)
\* {...target, ...source}: the entries of source set on target in their order
ObjAssign(target, source) ==
  IF source = << >> THEN target
  ELSE ObjAssign(MapSet(target, Head(source)[1], Head(source)[2]), Tail(source))

(***************************************************************************)
(* JsonProjector (util.js): clean, pick-by-schema, flatten.                *)
(***************************************************************************)

\* a value that clean removes from a mapping: null, undefined, or an empty
\* sequence or mapping
Removable(value) ==
  \/ value.t \in { "null", "undefined" }
  \/ value.t = "arr" /\ value.a = << >>
  \/ value.t = "obj" /\ value.o = << >>

RECURSIVE cleanObject(_)
\* clean(value): the removable keys of a mapping are removed, then the walk
\* goes into the surviving children
cleanObject(value) ==
  IF value.t = "obj"
  THEN LET kept == SelectSeq(value.o, LAMBDA e : ~ Removable(e[2]))
       IN  JObj([i \in 1..Len(kept) |-> << kept[i][1], cleanObject(kept[i][2]) >>])
  ELSE IF value.t = "arr"
  THEN JArr([i \in 1..Len(value.a) |-> cleanObject(value.a[i])])
  ELSE value

\* a schema entry is true (keep the value) or a nested schema
Keep == [keep |-> TRUE, keys |-> << >>]
Nested(keys) == [keep |-> FALSE, keys |-> keys]

RECURSIVE pickBySchema(_, _)
\* pickBySchema(value, schema): the keys of a mapping that the schema names,
\* kept verbatim or picked by the nested schema; a sequence is picked element
\* by element; any other value is returned unchanged
pickBySchema(value, schema) ==
  IF value.t = "obj"
  THEN LET kept == SelectSeq(value.o, LAMBDA e : MapHas(schema.keys, e[1]))
       IN  JObj([i \in 1..Len(kept) |->
                  LET rule == MapGet(schema.keys, kept[i][1])
                  IN  << kept[i][1],
                         IF rule.keep THEN kept[i][2]
                         ELSE pickBySchema(kept[i][2], rule) >>])
  ELSE IF value.t = "arr"
  THEN JArr([i \in 1..Len(value.a) |-> pickBySchema(value.a[i], schema)])
  ELSE value

RECURSIVE flattenArraysInObject(_)
RECURSIVE FlattenField(_)
\* the field value of an object, flattened: an array of length one is replaced
\* by its sole element, which is flattened in turn
FlattenField(value) ==
  IF value.t = "arr" /\ Len(value.a) = 1 THEN FlattenField(value.a[1])
  ELSE flattenArraysInObject(value)

\* flattenArraysInObject(value)
flattenArraysInObject(value) ==
  IF value.t = "obj"
  THEN JObj([i \in 1..Len(value.o) |->
              << value.o[i][1], FlattenField(value.o[i][2]) >>])
  ELSE IF value.t = "arr"
  THEN JArr([i \in 1..Len(value.a) |-> flattenArraysInObject(value.a[i])])
  ELSE value

(***************************************************************************)
(* Tool calls: names, arguments and the target URLs built from them.       *)
(***************************************************************************)

Kinds == { "search", "listing" }

\* the names a call-tool request may carry
ToolNames == Kinds \cup { "other" }

GuestKeys == { "adults", "children", "infants", "pets" }

\* largest guest count a caller passes
MaxGuests == 2

\* request.params.arguments: any of the guest counts, each present or not
GuestArguments == UNION { [K -> 0..MaxGuests] : K \in SUBSET GuestKeys }

\* request.params.arguments is absent
UndefinedArguments == [undefined |-> TRUE]

\* arguments that name no guest count
NoArguments == << >>

\* destructuring with a default: const { key = d } = params
Default(args, key, d) == IF key \in DOMAIN args THEN args[key] ELSE d

\* totalGuests = adults_int + children_int
TotalGuests(args) == Default(args, "adults", 1) + Default(args, "children", 0)

\* a mutant of SearchGuests: the guest parameters are appended in every case
SearchGuestsAlways(args) ==
  << << "adults", Default(args, "adults", 1) >>,
     << "children", Default(args, "children", 0) >>,
     << "infants", Default(args, "infants", 0) >>,
     << "pets", Default(args, "pets", 0) >> >>

\* the guest parameters appended by handleAirbnbSearch
SearchGuests(args) ==
  IF TotalGuests(args) > 0
  THEN << << "adults", Default(args, "adults", 1) >>,
          << "children", Default(args, "children", 0) >>,
          << "infants", Default(args, "infants", 0) >>,
          << "pets", Default(args, "pets", 0) >> >>
  ELSE << >>

\* the guest parameters appended by handleAirbnbListingDetails
ListingGuests(args) ==
  IF TotalGuests(args) > 0
  THEN << << "adults", Default(args, "adults", 1) >>,
          << "children", Default(args, "children", 0) >>,
          << "infants", Default(args, "infants", 0) >>,
          << "adults", Default(args, "adults", 1) >>,
          << "children", Default(args, "children", 0) >>,
          << "infants", Default(args, "infants", 0) >>,
          << "pets", Default(args, "pets", 0) >> >>
  ELSE << >>

\* new URL(`${BASE_URL}/s/${location}/homes`), new URL(`${BASE_URL}/rooms/${id}`)
\* with the guest parameters appended
TargetUrl(kind, args) ==
  IF kind = "search"
  THEN [host |-> BASE_HOST, path |-> << "s", "Paris", "homes" >>,
        search |-> SearchGuests(args)]
  ELSE [host |-> BASE_HOST, path |-> << "rooms", "123" >>,
        search |-> ListingGuests(args)]

\* options of the target fetch: the listing pipeline overrides the Referer
TargetOptions(kind) ==
  IF kind = "listing"
  THEN [headers |->
          [Referer |-> [host |-> BASE_HOST, path |-> << "s", "homes" >>,
                        search |-> << >>]]]
  ELSE NoOptions

\* what the call-tool handler throws before a pipeline reaches its policy check:
\* the default branch of the switch, or the destructuring of absent arguments
HandlerThrows(name, args) ==
  IF name \notin Kinds THEN "Unknown tool"
  ELSE IF args = UndefinedArguments THEN "TypeError"
  ELSE "none"

(***************************************************************************)
(* Results: { content: [{ type: "text", text }], isError }.  A text that   *)
(* is JSON.stringify of an object is kept as that object, any other text   *)
(* under the key plain.                                                    *)
(***************************************************************************)

robotsErrorMessage == "disallowed by robots.txt"

NoResult == [content |-> << >>, isError |-> FALSE]

TextResult(text, isError) ==
  [content |-> << [type |-> "text", text |-> text] >>, isError |-> isError]

Text(res) == res.content[1].text

\* the early return of both handlers when the policy denies the path
PolicyResult(url) == TextResult([error |-> robotsErrorMessage, url |-> url], TRUE)

\* the result built by the outer catch of a handler
ErrorResult(kind, message, url) ==
  TextResult(IF kind = "search"
             THEN [error |-> message, searchUrl |-> url]
             ELSE [error |-> message, listingUrl |-> url],
             TRUE)

\* a mutant of CallToolCatch: the error leaves the call-tool handler
CallToolRethrow(message) == [pc |-> "escaped", result |-> NoResult]

\* the catch block of the call-tool handler
CallToolCatch(message) ==
  [pc |-> "done", result |-> TextResult([plain |-> << "Error: ", message >>], TRUE)]

(***************************************************************************)
(* Pages and their extraction.  A page is known by what the extraction     *)
(* finds in it (shape) and by the items of its payload: the sections of a  *)
(* listing page, the results of a search page.                             *)
(***************************************************************************)

PageShapes == { "payload", "noScript", "badJson", "noSubtree" }

\* pages with an empty payload
PageBodies == [shape : PageShapes, items : { << >> }]

allowSectionSchema ==
  Nested(<<
    << "LOCATION_DEFAULT",
       Nested(<< << "lat", Keep >>, << "lng", Keep >>, << "subtitle", Keep >>,
                 << "title", Keep >> >>) >>,
    << "POLICIES_DEFAULT",
       Nested(<< << "title", Keep >>,
                 << "houseRulesSections",
                    Nested(<< << "title", Keep >>,
                              << "items", Nested(<< << "title", Keep >> >>) >> >>) >> >>) >>,
    << "HIGHLIGHTS_DEFAULT",
       Nested(<< << "highlights", Nested(<< << "title", Keep >> >>) >> >>) >>,
    << "DESCRIPTION_DEFAULT",
       Nested(<< << "htmlDescription", Nested(<< << "htmlText", Keep >> >>) >> >>) >>,
    << "AMENITIES_DEFAULT",
       Nested(<< << "title", Keep >>,
                 << "seeAllAmenitiesGroups",
                    Nested(<< << "title", Keep >>,
                              << "amenities", Nested(<< << "title", Keep >> >>) >> >>) >> >>) >>
  >>)

\* the body line of a structured content entry
BodyOnly == Nested(<< << "body", Keep >> >>)
LabelOnly == Nested(<< << "accessibilityLabel", Keep >> >>)

allowSearchResultSchema ==
  Nested(<<
    << "listing",
       Nested(<< << "id", Keep >>, << "name", Keep >>, << "title", Keep >>,
                 << "coordinate", Keep >>,
                 << "structuredContent",
                    Nested(<< << "mapCategoryInfo", BodyOnly >>,
                              << "mapSecondaryLine", BodyOnly >>,
                              << "primaryLine", BodyOnly >>,
                              << "secondaryLine", BodyOnly >> >>) >> >>) >>,
    << "avgRatingA11yLabel", Keep >>,
    << "listingParamOverrides", Keep >>,
    << "structuredDisplayPrice",
       Nested(<< << "primaryLine", LabelOnly >>,
                 << "secondaryLine", LabelOnly >>,
                 << "explanationData",
                    Nested(<< << "title", Keep >>,
                              << "priceDetails",
                                 Nested(<< << "items",
                                           Nested(<< << "description", Keep >>,
                                                     << "priceString", Keep >> >>) >> >>) >> >>) >> >>) >>
  >>)

\* schema.hasOwnProperty(key)
HasOwnProperty(schema, key) == key.t = "str" /\ MapHas(schema.keys, key.s)

\* the entries that { ...value } contributes
Spread(value) ==
  IF value.t = "obj" THEN value.o
  ELSE IF value.t = "arr"
  THEN [i \in 1..Len(value.a) |-> << ToString(i - 1), value.a[i] >>]
  ELSE << >>

\* a mutant of SectionDetails: every section of the page is kept
SectionDetailsNoFilter(items) ==
  LET cleaned == [i \in 1..Len(items) |-> cleanObject(items[i])]
  IN  JArr([i \in 1..Len(cleaned) |->
             JObj(ObjAssign(<< << "id", ObjGet(cleaned[i], "sectionId") >> >>,
                            Spread(flattenArraysInObject(
                              ObjGet(cleaned[i], "section")))))])

\* details of handleAirbnbListingDetails (lines 554-562): the sections are
\* cleaned, filtered by the allow-list and projected
SectionDetails(items) ==
  LET cleaned == [i \in 1..Len(items) |-> cleanObject(items[i])]
      kept == SelectSeq(cleaned,
                LAMBDA section :
                  HasOwnProperty(allowSectionSchema, ObjGet(section, "sectionId")))
  IN  JArr([i \in 1..Len(kept) |->
             JObj(ObjAssign(<< << "id", ObjGet(kept[i], "sectionId") >> >>,
                            Spread(flattenArraysInObject(
                              pickBySchema(ObjGet(kept[i], "section"),
                                MapGet(allowSectionSchema.keys,
                                       ObjGet(kept[i], "sectionId").s))))))])

\* the search results projected (first map of lines 409-410)
ProjectedResults(items) ==
  [i \in 1..Len(items) |->
     flattenArraysInObject(pickBySchema(cleanObject(items[i]), allowSearchResultSchema))]

\* result.listing.id can be read
HasListing(result) == ObjGet(result, "listing").t \notin { "undefined", "null" }

\* searchResults of handleAirbnbSearch (second map, line 411)
SearchResults(items) ==
  LET projected == ProjectedResults(items)
  IN  JArr([i \in 1..Len(projected) |->
             JObj(ObjAssign(
               << << "url",
                     [t |-> "url",
                      u |-> [host |-> BASE_HOST,
                             path |-> << "rooms",
                                         ObjGet(ObjGet(projected[i], "listing"), "id") >>,
                             search |-> << >>]] >> >>,
               projected[i].o))])

\* the inner try block reaches its end without throwing
Extracts(kind, body) ==
  /\ body.shape = "payload"
  /\ kind = "search" =>
       \A i \in 1..Len(body.items) : HasListing(ProjectedResults(body.items)[i])

\* the result returned after the inner try/catch of a handler
PageResult(kind, body, url) ==
  TextResult(
    IF kind = "search"
    THEN IF Extracts(kind, body)
         THEN [searchUrl |-> url, searchResults |-> SearchResults(body.items),
               paginationInfo |-> "page"]
         ELSE [searchUrl |-> url]
    ELSE [listingUrl |-> url,
          details |-> IF Extracts(kind, body) THEN SectionDetails(body.items)
                      ELSE JObj(<< >>)],
    FALSE)

(***************************************************************************)
(* State.                                                                  *)
(***************************************************************************)

VARIABLES
  IGNORE_ROBOTS_TXT,  \* the --ignore-robots-txt argument
  robotsTxtContent,   \* body of robots.txt, << >> until loaded
  cookieJar,          \* the process-wide cookie jar
  pc,                 \* per process: position in its start-up or handler
  params,             \* per process: tool and arguments of the running call
  fetchState,         \* per process: frame of the running fetchWithBrowserHeaders
  result,             \* per process: result object returned by the handler
  call,               \* history: counters of the running fetch call
  done,               \* history: the last finished fetch call
  inv,                \* history: what the running handler call has done so far
  lastRaw,            \* history: name -> raw value of the latest Set-Cookie entry
  lastRecorded        \* history: name -> value of the latest recorded pair

vars ==
  << IGNORE_ROBOTS_TXT, robotsTxtContent, cookieJar, pc, params, fetchState,
     result, call, done, inv, lastRaw, lastRecorded >>

\* the process that runs runServer / initializeBrowserSession
Main == 0
ToolProcs == DOMAIN pc \ { Main }

NoParams ==
  [kind |-> "init", ignoreRobotsText |-> FALSE, url |-> BASE_URL,
   args |-> NoArguments]
NoCall == [n |-> 0, sent |-> 0, parsed |-> 0, all302 |-> TRUE, lastStatus |-> 0]
NoDone ==
  [valid |-> FALSE, n |-> 0, sent |-> 0, parsed |-> 0, all302 |-> TRUE,
   kind |-> "none", error |-> "none", response |-> NoResponse,
   last |-> NoResponse, depth |-> 0, stage |-> "none"]
NoInv ==
  [sent |-> FALSE, targetSent |-> FALSE, warmup |-> "none", body |-> "none",
   checked |-> FALSE, inflight |-> 0, robots |-> "none", items |-> << >>,
   stale |-> FALSE]

(***************************************************************************)
(* History of the Set-Cookie entries seen.                                 *)
(***************************************************************************)

\* the name and the value of a Set-Cookie entry: the text of its part before
\* the first ';', before and after the first '='
RawPair(e) ==
  LET i == IndexOf(e, ";")
      m == IF i = 0 THEN e ELSE SubSeq(e, 1, i - 1)
      k == IndexOf(m, "=")
  IN  [ok |-> k > 0,
       name |-> Trim(SubSeq(m, 1, k - 1)),
       value |-> Trim(SubSeq(m, k + 1, Len(m)))]

RawPairOf == [e \in JarEntries |-> RawPair(e)]

RECURSIVE NoteRaw(_, _)
NoteRaw(g, list) ==
  IF list = << >> THEN g
  ELSE LET raw == RawPairOf[Head(list)]
       IN  NoteRaw(IF raw.ok /\ raw.name # << >> /\ raw.value # << >>
                   THEN (raw.name :> raw.value) @@ g
                   ELSE g,
                   Tail(list))

RECURSIVE NoteRecorded(_, _)
NoteRecorded(g, list) ==
  IF list = << >> THEN g
  ELSE LET pair == Parsed[Head(list)].pair
       IN  NoteRecorded(IF Parsed[Head(list)].truthy
                        THEN (Trim(pair.name) :> Trim(pair.value)) @@ g
                        ELSE g,
                        Tail(list))

(***************************************************************************)
(* Initial state: the process has started, nothing has been fetched.       *)
(***************************************************************************)

InitWith(tools) ==
  /\ IGNORE_ROBOTS_TXT \in BOOLEAN
  /\ robotsTxtContent = << >>
  /\ cookieJar = << >>
  /\ pc = [p \in tools \cup { Main } |-> IF p = Main THEN "boot" ELSE "idle"]
  /\ params = [p \in tools \cup { Main } |-> NoParams]
  /\ fetchState = [p \in tools \cup { Main } |-> NoFetch]
  /\ result = [p \in tools \cup { Main } |-> NoResult]
  /\ call = [p \in tools \cup { Main } |-> NoCall]
  /\ done = [p \in tools \cup { Main } |-> NoDone]
  /\ inv = [p \in tools \cup { Main } |-> NoInv]
  /\ lastRaw = << >>
  /\ lastRecorded = << >>

\* one tool call at a time
SingleTool == { 1 }

Init == InitWith(SingleTool)

(***************************************************************************)
(* What the caller of a fetch does when the call returns or throws.        *)
(***************************************************************************)

Stay(stage, robots) ==
  [pc |-> stage, fetch |-> NoFetch, result |-> NoResult, robots |-> robots]

\* a mutant of AfterInitFetch: robots.txt is fetched also after a failed warm-up
AfterInitFetchAlwaysRobots(stage, ok, ignore, jar, robots) ==
  IF stage = "warmup"
  THEN IF ~ ignore
       THEN [Stay("robots", robots) EXCEPT
               !.fetch = BeginFetch(RobotsUrl, NoOptions, 0, jar)]
       ELSE Stay("connected", robots)
  ELSE IF ok THEN Stay("text", robots)
       ELSE Stay("connected", << >>)

\* initializeBrowserSession / fetchRobotsTxt after one of their fetches ended
AfterInitFetch(stage, ok, ignore, jar, robots) ==
  IF stage = "warmup"
  THEN IF ok /\ ~ ignore
       THEN [Stay("robots", robots) EXCEPT
               !.fetch = BeginFetch(RobotsUrl, NoOptions, 0, jar)]
       ELSE Stay("connected", robots)
  ELSE IF ok THEN Stay("text", robots)
       ELSE Stay("connected", << >>)

\* a mutant of AfterToolFetch: a failed warm-up is ignored
AfterToolFetchIgnoreWarmup(kind, url, stage, ok, message, jar, robots) ==
  IF stage = "warmup"
  THEN [Stay("target", robots) EXCEPT
          !.fetch = BeginFetch(url, TargetOptions(kind), 0, jar)]
  ELSE IF ok THEN Stay("text", robots)
       ELSE [Stay("done", robots) EXCEPT
               !.result = ErrorResult(kind, message, url)]

\* a tool handler after one of its fetches ended (the try block and its catch)
AfterToolFetch(kind, url, stage, ok, message, jar, robots) ==
  IF ~ ok
  THEN [Stay("done", robots) EXCEPT
          !.result = ErrorResult(kind, message, url)]
  ELSE IF stage = "warmup"
  THEN IF kind = "search"
       THEN [Stay("target", robots) EXCEPT
               !.fetch = BeginFetch(url, TargetOptions(kind), 0, jar)]
       ELSE Stay("pause", robots)
  ELSE Stay("text", robots)

AfterFetch(kind, url, stage, ok, message, ignore, jar, robots) ==
  IF kind = "init"
  THEN AfterInitFetch(stage, ok, ignore, jar, robots)
  ELSE AfterToolFetch(kind, url, stage, ok, message, jar, robots)

\* a mutant of FetchRejected: the request is sent again after a failure
FetchRejectedRetry(fs, jar) ==
  [kind |-> "recurse", error |-> "none", jar |-> jar, parsed |-> 0,
   response |-> NoResponse, next |-> [fs EXCEPT !.phase = "delay"]]

\* the awaited fetch rejects: the error propagates out of the call
FetchRejected(fs, jar) == Thrown("Transport", jar, 0)

(***************************************************************************)
(* Actions.                                                                *)
(***************************************************************************)

\* runServer -> initializeBrowserSession: the start-up warm-up fetch begins
initializeBrowserSession ==
  /\ pc[Main] = "boot"
  /\ pc' = [pc EXCEPT ![Main] = "warmup"]
  /\ fetchState' = [fetchState EXCEPT
                      ![Main] = BeginFetch(BASE_URL, NoOptions, 0, cookieJar)]
  /\ call' = [call EXCEPT ![Main] = NoCall]
  /\ UNCHANGED << IGNORE_ROBOTS_TXT, robotsTxtContent, cookieJar, params, result,
                  done, inv, lastRaw, lastRecorded >>

\* the call-tool handler up to its first await: the switch on the tool name,
\* then handleAirbnbSearch / handleAirbnbListingDetails builds its URL, checks
\* the policy and begins the warm-up fetch; what is thrown on the way is caught
\* by the handler
CallTool(p, name, ignoreRobotsText, args) ==
  /\ p \in ToolProcs
  /\ pc[Main] = "connected"
  /\ pc[p] = "idle"
  /\ call' = [call EXCEPT ![p] = NoCall]
  /\ done' = [done EXCEPT ![p] = NoDone]
  /\ IF HandlerThrows(name, args) # "none"
     THEN LET caught == CallToolCatch(HandlerThrows(name, args))
          IN  /\ params' = [params EXCEPT
                              ![p] = [NoParams EXCEPT !.kind = name,
                                                      !.args = args]]
              /\ inv' = [inv EXCEPT ![p] = NoInv]
              /\ pc' = [pc EXCEPT ![p] = caught.pc]
              /\ result' = [result EXCEPT ![p] = caught.result]
              /\ UNCHANGED fetchState
     ELSE LET url == TargetUrl(name, args)
          IN  /\ params' = [params EXCEPT
                              ![p] = [kind |-> name,
                                      ignoreRobotsText |-> ignoreRobotsText,
                                      url |-> url, args |-> args]]
              /\ inv' = [inv EXCEPT ![p] = [NoInv EXCEPT !.checked = TRUE]]
              /\ IF PolicyBlocks(ignoreRobotsText, robotsTxtContent, url.path)
                 THEN /\ pc' = [pc EXCEPT ![p] = "done"]
                      /\ result' = [result EXCEPT ![p] = PolicyResult(url)]
                      /\ UNCHANGED fetchState
                 ELSE /\ pc' = [pc EXCEPT ![p] = "warmup"]
                      /\ result' = [result EXCEPT ![p] = NoResult]
                      /\ fetchState' =
                           [fetchState EXCEPT
                              ![p] = BeginFetch(BASE_URL, NoOptions, 0, cookieJar)]
  /\ UNCHANGED << IGNORE_ROBOTS_TXT, robotsTxtContent, cookieJar, lastRaw,
                  lastRecorded >>

\* the pacing delay is over: the request goes out
SendRequest(p) ==
  /\ fetchState[p].phase = "delay"
  /\ fetchState' = [fetchState EXCEPT
                      ![p] = [@ EXCEPT !.phase = "inflight",
                                       !.headers = RequestHeaders(fetchState[p])]]
  /\ call' = [call EXCEPT ![p] = [@ EXCEPT !.sent = @ + 1]]
  /\ inv' = [inv EXCEPT
               ![p] = [@ EXCEPT !.sent = TRUE,
                                !.targetSent = @ \/ pc[p] = "target",
                                !.inflight = @ + 1,
                                !.stale = CookieOf(fetchState[p].headers)
                                            # getCookieString(cookieJar)]]
  /\ done' = [done EXCEPT ![p] = NoDone]
  /\ UNCHANGED << IGNORE_ROBOTS_TXT, robotsTxtContent, cookieJar, pc, params,
                  result, lastRaw, lastRecorded >>

\* the running call of p goes on with outcome h of its awaited fetch; received
\* is the response when there is one, setCookie its Set-Cookie entries
Proceed(p, h, received, setCookie) ==
  LET fs == fetchState[p]
      c == [n      |-> call[p].n + (IF received = NoResponse THEN 0 ELSE 1),
            sent   |-> call[p].sent,
            parsed |-> call[p].parsed + h.parsed,
            all302 |-> call[p].all302 /\ (h.kind = "recurse" => received.status = 302),
            lastStatus |-> received.status]
      k == AfterFetch(params[p].kind, params[p].url, pc[p], h.kind = "return",
                      h.error, IGNORE_ROBOTS_TXT, h.jar, robotsTxtContent)
  IN  /\ cookieJar' = h.jar
      /\ lastRaw' = NoteRaw(lastRaw, setCookie)
      /\ lastRecorded' = NoteRecorded(lastRecorded, setCookie)
      /\ IF h.kind = "recurse"
         THEN /\ fetchState' = [fetchState EXCEPT ![p] = h.next]
              /\ call' = [call EXCEPT ![p] = c]
              /\ inv' = [inv EXCEPT ![p] = [@ EXCEPT !.inflight = @ - 1]]
              /\ UNCHANGED << pc, result, robotsTxtContent, done >>
         ELSE /\ fetchState' = [fetchState EXCEPT ![p] = k.fetch]
              /\ pc' = [pc EXCEPT ![p] = k.pc]
              /\ result' = [result EXCEPT ![p] = k.result]
              /\ robotsTxtContent' = k.robots
              /\ call' = [call EXCEPT ![p] = NoCall]
              /\ done' = [done EXCEPT
                            ![p] = IF k.pc = "connected" THEN NoDone
                                   ELSE [valid |-> TRUE, n |-> c.n, sent |-> c.sent,
                                         parsed |-> c.parsed, all302 |-> c.all302,
                                         kind |-> h.kind, error |-> h.error,
                                         response |-> h.response,
                                         last |-> View(received),
                                         depth |-> fs.redirectCount,
                                         stage |-> pc[p]]]
              /\ inv' = [inv EXCEPT
                           ![p] = [@ EXCEPT
                                     !.inflight = @ - 1,
                                     !.warmup = IF pc[p] # "warmup" THEN @
                                                ELSE IF h.kind = "return" THEN "ok"
                                                ELSE "failed",
                                     !.robots = IF pc[p] = "robots" /\ h.kind = "throw"
                                                THEN "failed" ELSE @]]
      /\ UNCHANGED << IGNORE_ROBOTS_TXT, params >>

\* the response r to the request in flight arrives
ReceiveResponse(p, r) ==
  /\ fetchState[p].phase = "inflight"
  /\ Proceed(p, HandleResponse(fetchState[p], r, cookieJar), r, r.setCookie)

\* the request in flight fails in the transport
TransportFailure(p) ==
  /\ fetchState[p].phase = "inflight"
  /\ Proceed(p, FetchRejected(fetchState[p], cookieJar),
             [NoResponse EXCEPT !.status = 0], << >>)

\* handleAirbnbListingDetails: the delay between warm-up and target fetch is over
PauseDone(p) ==
  /\ pc[p] = "pause"
  /\ pc' = [pc EXCEPT ![p] = "target"]
  /\ fetchState' = [fetchState EXCEPT
                      ![p] = BeginFetch(params[p].url,
                                        TargetOptions(params[p].kind), 0, cookieJar)]
  /\ done' = [done EXCEPT ![p] = NoDone]
  /\ UNCHANGED << IGNORE_ROBOTS_TXT, robotsTxtContent, cookieJar, params, result,
                  call, inv, lastRaw, lastRecorded >>

\* fetchRobotsTxt: response.text() yields the body of robots.txt
ReadRobotsTxt(body) ==
  /\ pc[Main] = "text"
  /\ robotsTxtContent' = body
  /\ pc' = [pc EXCEPT ![Main] = "connected"]
  /\ done' = [done EXCEPT ![Main] = NoDone]
  /\ inv' = [inv EXCEPT ![Main] = [@ EXCEPT !.robots = "ok"]]
  /\ UNCHANGED << IGNORE_ROBOTS_TXT, cookieJar, params, fetchState, result, call,
                  lastRaw, lastRecorded >>

\* a tool handler: response.text() yields the page, the extraction runs and
\* the handler returns its result
ReadPage(p, body) ==
  /\ p \in ToolProcs
  /\ pc[p] = "text"
  /\ pc' = [pc EXCEPT ![p] = "done"]
  /\ result' = [result EXCEPT
                  ![p] = PageResult(params[p].kind, body, params[p].url)]
  /\ inv' = [inv EXCEPT ![p] = [@ EXCEPT !.body = body.shape, !.items = body.items]]
  /\ UNCHANGED << IGNORE_ROBOTS_TXT, robotsTxtContent, cookieJar, params,
                  fetchState, call, done, lastRaw, lastRecorded >>

\* response.text() rejects: caught by fetchRobotsTxt or by the handler
ReadFails(p) ==
  /\ pc[p] = "text"
  /\ IF p = Main
     THEN /\ robotsTxtContent' = << >>
          /\ pc' = [pc EXCEPT ![p] = "connected"]
          /\ done' = [done EXCEPT ![p] = NoDone]
          /\ inv' = [inv EXCEPT ![p] = [@ EXCEPT !.robots = "failed"]]
          /\ UNCHANGED result
     ELSE /\ pc' = [pc EXCEPT ![p] = "done"]
          /\ result' = [result EXCEPT
                          ![p] = ErrorResult(params[p].kind, "body", params[p].url)]
          /\ inv' = [inv EXCEPT ![p] = [@ EXCEPT !.body = "unread"]]
          /\ UNCHANGED << robotsTxtContent, done >>
  /\ UNCHANGED << IGNORE_ROBOTS_TXT, cookieJar, params, fetchState, call, lastRaw,
                  lastRecorded >>

\* the call-tool handler hands the result to the client
Reply(p) ==
  /\ p \in ToolProcs
  /\ pc[p] = "done"
  /\ pc' = [pc EXCEPT ![p] = "idle"]
  /\ result' = [result EXCEPT ![p] = NoResult]
  /\ params' = [params EXCEPT ![p] = NoParams]
  /\ done' = [done EXCEPT ![p] = NoDone]
  /\ inv' = [inv EXCEPT ![p] = NoInv]
  /\ UNCHANGED << IGNORE_ROBOTS_TXT, robotsTxtContent, cookieJar, fetchState, call,
                  lastRaw, lastRecorded >>

\* one step of the program, with the site's responses drawn from R, robots.txt
\* bodies from B, pages from P, and tool calls of the names K with
\* ignoreRobotsText in I and arguments in G
NextOn(R, B, K, I, G, P) ==
  \/ initializeBrowserSession
  \/ \E p \in DOMAIN pc, name \in K, ignoreRobotsText \in I, args \in G :
       CallTool(p, name, ignoreRobotsText, args)
  \/ \E p \in DOMAIN pc : SendRequest(p)
  \/ \E p \in DOMAIN pc :
       fetchState[p].phase = "inflight" /\ \E r \in R : ReceiveResponse(p, r)
  \/ \E p \in DOMAIN pc : TransportFailure(p)
  \/ \E p \in DOMAIN pc : PauseDone(p)
  \/ \E body \in B : ReadRobotsTxt(body)
  \/ \E p \in DOMAIN pc, body \in P : ReadPage(p, body)
  \/ \E p \in DOMAIN pc : ReadFails(p)
  \/ \E p \in DOMAIN pc : Reply(p)

\* the whole program; the site sets at most the one cookie "a=1" per response
PlainResponses ==
  [status : Statuses, location : Locations,
   setCookie : { << >>, << << "a", "=", "1" >> >> }]

\* the arguments of a call are absent or name no guest count
PlainArguments == { UndefinedArguments, NoArguments }

Next ==
  NextOn(PlainResponses, RobotsBodies, ToolNames, BOOLEAN, PlainArguments, PageBodies)

Spec == Init /\ [][Next]_vars

\* the fetches of a session in detail: every tool call is a listing-details call
\* that ignores the policy, the site sends any of the Set-Cookie lists
FetchInit == Init /\ IGNORE_ROBOTS_TXT = FALSE

FetchResponses ==
  [status : { 200, 302, 404 },
   location : { NoLocation, RelativeLogin },
   setCookie : SetCookieLists]

FetchNext ==
  NextOn(FetchResponses, { << >> }, { "listing" }, { TRUE }, { NoArguments },
         PageBodies)

FetchSpec == FetchInit /\ [][FetchNext]_vars

\* the whole program on a smaller set of responses, every request sent being
\* answered or failing in the end
LiveResponses ==
  [status : { 200, 302, 307, 500 },
   location : { NoLocation, RelativeLogin },
   setCookie : { << >>, << << "a", "=", "1" >> >> }]

LiveNext ==
  NextOn(LiveResponses, RobotsBodies, Kinds, BOOLEAN, { NoArguments }, PageBodies)

\* the pacing timer fires and the awaited fetch settles
Completes ==
  \E p \in DOMAIN pc :
    \/ SendRequest(p)
    \/ fetchState[p].phase = "inflight"
         /\ \E r \in LiveResponses : ReceiveResponse(p, r)
    \/ TransportFailure(p)

LiveSpec == Init /\ [][LiveNext]_vars /\ WF_vars(Completes)

\* the URLs built from the arguments: tool calls with any guest counts, on a
\* site that answers 200
UrlInit == Init /\ IGNORE_ROBOTS_TXT = FALSE

UrlNext ==
  NextOn([status : { 200 }, location : { NoLocation }, setCookie : { << >> }],
         { << >> }, Kinds, { FALSE }, GuestArguments,
         { [shape |-> "payload", items |-> << >>] })

UrlSpec == UrlInit /\ [][UrlNext]_vars

\* items of a page payload:
\*   { sectionId: "LOCATION_DEFAULT",
\*     section: { title: ["T"], id: "X", lat: null, subtitle: { note: null } } }
\*   { sectionId: "BOOK_IT_SIDEBAR", section: { title: "T" } }
\*   { sectionId: "POLICIES_DEFAULT",
\*     section: { title: "P",
\*                houseRulesSections: [{ title: "R", items: [{ title: "I", extra: "E" }] }] } }
\*   { sectionId: "hasOwnProperty", section: {} }
\*   { section: { title: "T" } }
\*   { listing: { id: "1", name: ["N"], secret: "S" }, avgRatingA11yLabel: null }
LocationSection ==
  JObj(<< << "sectionId", JStr("LOCATION_DEFAULT") >>,
          << "section",
             JObj(<< << "title", JArr(<< JStr("T") >>) >>,
                     << "id", JStr("X") >>,
                     << "lat", JNull >>,
                     << "subtitle", JObj(<< << "note", JNull >> >>) >> >>) >> >>)

SidebarSection ==
  JObj(<< << "sectionId", JStr("BOOK_IT_SIDEBAR") >>,
          << "section", JObj(<< << "title", JStr("T") >> >>) >> >>)

PoliciesSection ==
  JObj(<< << "sectionId", JStr("POLICIES_DEFAULT") >>,
          << "section",
             JObj(<< << "title", JStr("P") >>,
                     << "houseRulesSections",
                        JArr(<< JObj(<< << "title", JStr("R") >>,
                                        << "items",
                                           JArr(<< JObj(<< << "title", JStr("I") >>,
                                                           << "extra", JStr("E") >> >>) >>) >> >>) >>) >> >>) >> >>)

ProtoSection ==
  JObj(<< << "sectionId", JStr("hasOwnProperty") >>,
          << "section", JObj(<< >>) >> >>)

NoIdSection ==
  JObj(<< << "section", JObj(<< << "title", JStr("T") >> >>) >> >>)

SearchItem ==
  JObj(<< << "listing",
             JObj(<< << "id", JStr("1") >>,
                     << "name", JArr(<< JStr("N") >>) >>,
                     << "secret", JStr("S") >> >>) >>,
          << "avgRatingA11yLabel", JNull >> >>)

PageItems ==
  { LocationSection, SidebarSection, PoliciesSection, ProtoSection, NoIdSection,
    SearchItem }

\* most items in the payload of a page
MaxItems == 3

\* the extraction of pages: tool calls on a site that answers 200 with a page
\* whose payload holds any of the items
PayloadPages == [shape : { "payload" }, items : SeqUpTo(PageItems, MaxItems)]

PageInit == Init /\ IGNORE_ROBOTS_TXT = FALSE

PageNext ==
  NextOn([status : { 200 }, location : { NoLocation }, setCookie : { << >> }],
         { << >> }, Kinds, { FALSE }, { NoArguments }, PayloadPages)

PageSpec == PageInit /\ [][PageNext]_vars

\* two tool calls at a time: listing-details calls that ignore the policy, on a
\* site that answers 200 and sets one cookie at most per response
TwoTools == { 1, 2 }

ConcInit == InitWith(TwoTools) /\ IGNORE_ROBOTS_TXT = FALSE

ConcResponses ==
  [status : { 200 }, location : { NoLocation },
   setCookie : { << >>, << << "a", "=", "1" >> >>, << << "a", "=", "3" >> >>,
                 << << "b", "=", "4", "=" >> >> }]

ConcNext ==
  NextOn(ConcResponses, { << >> }, { "listing" }, { TRUE }, { NoArguments },
         { [shape |-> "payload", items |-> << >>] })

ConcSpec == ConcInit /\ [][ConcNext]_vars

\* the cookie jar on its own: cookie recording applied to any Set-Cookie list
Record(cookieHeader) ==
  /\ cookieJar' = parseCookies(cookieJar, cookieHeader)
  /\ lastRaw' = NoteRaw(lastRaw, cookieHeader)
  /\ lastRecorded' = NoteRecorded(lastRecorded, cookieHeader)
  /\ UNCHANGED << IGNORE_ROBOTS_TXT, robotsTxtContent, pc, params, fetchState,
                  result, call, done, inv >>

JarNext == \E cookieHeader \in JarSetCookieLists : Record(cookieHeader)

JarSpec == Init /\ [][JarNext]_vars

(***************************************************************************)
(* Properties.                                                             *)
(***************************************************************************)

RedirectStatuses == { 301, 302, 307 }

\* the "name=value" pieces of a Cookie header
HeaderCookies(cookie) ==
  LET parts == Split(cookie, ";") IN { Trim(parts[i]) : i \in 1..Len(parts) }

\* C1: a fetch follows redirects up to the bound: a call that ends after the
\* chain 302, 302, 200 returns that 200 response with the cookies of all three
\* responses recorded; no call goes on after 6 redirect responses, and a call
\* whose 6th response is again a redirect with a Location fails with the
\* too-many-redirects error.
C1_RedirectBound ==
  \A p \in DOMAIN pc :
    /\ call[p].n <= 5
    /\ done[p].valid =>
         /\ done[p].n <= 6
         /\ (done[p].n = 3 /\ done[p].all302 /\ done[p].last.status = 200) =>
              /\ done[p].kind = "return"
              /\ done[p].response = done[p].last
              /\ done[p].parsed = 3
         /\ (done[p].n = 6 /\ done[p].last.status \in RedirectStatuses
               /\ done[p].last.location # NoLocation) =>
              /\ done[p].kind = "throw"
              /\ done[p].error = "TooManyRedirects"

C1_Witness ==
  \E p \in DOMAIN pc :
    /\ done[p].valid /\ done[p].n = 6 /\ done[p].error = "TooManyRedirects"
    /\ done[p].last.location # NoLocation
    /\ done[p].parsed = 6

\* C2: every response received is passed to cookie recording, whatever the call
\* then does with it: the number of parseCookies calls equals the number of
\* responses received, and the jar holds the latest pair of every name that any
\* received response set.
C2_EveryResponseRecorded ==
  /\ \A p \in DOMAIN pc :
       /\ call[p].parsed = call[p].n
       /\ done[p].valid => done[p].parsed = done[p].n
  /\ \A name \in DOMAIN lastRecorded : MapGet(cookieJar, name) = lastRecorded[name]

C2_Witness ==
  \E p \in DOMAIN pc :
    /\ done[p].valid /\ done[p].error = "MissingLocation"
    /\ done[p].n = 2 /\ done[p].parsed = 2
    /\ done[p].stage = "warmup" /\ p = 1
    /\ cookieJar # << >>

\* C3: with one invocation running at a time, the Cookie header of every request
\* sent holds, for every cookie name recorded so far in the session (by earlier
\* responses of the same redirect chain or by earlier fetches), the pair
\* name=value with the value recorded last.
C3_CookiesReplayed ==
  \A p \in DOMAIN pc :
    fetchState[p].phase = "inflight" =>
      \A name \in DOMAIN lastRecorded :
        /\ "Cookie" \in DOMAIN fetchState[p].headers
        /\ (name \o << "=" >> \o lastRecorded[name])
             \in HeaderCookies(fetchState[p].headers.Cookie)

\* the third request of the first fetch of the session carries a=3 and b=2, set
\* by the two redirect responses before it
C3_Witness ==
  /\ pc[Main] = "warmup"
  /\ fetchState[Main].phase = "inflight"
  /\ fetchState[Main].redirectCount = 2
  /\ "Cookie" \in DOMAIN fetchState[Main].headers
  /\ fetchState[Main].headers.Cookie
       = << "a", "=", "3", ";", " ", "b", "=", "2" >>

\* C4 (as claimed): after any sequence of record calls the jar maps the name of
\* every Set-Cookie entry seen to the value of the most recent entry with that
\* name, the value being all of the entry's text between its first '=' and its
\* first ';'.
C4_LastWriteWins ==
  \A name \in DOMAIN lastRaw : MapGet(cookieJar, name) = lastRaw[name]

\* C5 (as claimed): a redirect response without a Location header makes the call
\* fail with the missing-location error at any redirect depth.
C5_MissingLocationAnyDepth ==
  \A p \in DOMAIN pc :
    (done[p].valid /\ done[p].last.status \in RedirectStatuses
       /\ done[p].last.location = NoLocation) =>
      (done[p].kind = "throw" /\ done[p].error = "MissingLocation")

\* C5 (amended): a redirect response without a Location header makes the call
\* fail with the missing-location error when fewer than 5 redirects have been
\* followed; after 5 redirects the call fails with the too-many-redirects error
\* instead.  Neither error is a transport error.
C5_MissingLocationBelowBound ==
  \A p \in DOMAIN pc :
    (done[p].valid /\ done[p].last.status \in RedirectStatuses
       /\ done[p].last.location = NoLocation) =>
      /\ done[p].kind = "throw"
      /\ done[p].depth < 5 => done[p].error = "MissingLocation"
      /\ done[p].depth >= 5 => done[p].error = "TooManyRedirects"
      /\ done[p].error # "Transport"

C5_Witness ==
  \E p \in DOMAIN pc :
    /\ done[p].valid /\ done[p].error = "MissingLocation"
    /\ done[p].depth = 4
    /\ done[p].last.status = 307

\* C6: a follow-up request is issued only after a response with status 301, 302
\* or 307; a response with any other status, with or without Location, ends the
\* call and is what the call returns.
C6_OnlyRedirectsFollowed ==
  \A p \in DOMAIN pc :
    /\ (fetchState[p].phase # "none" /\ fetchState[p].redirectCount > 0) =>
         call[p].lastStatus \in RedirectStatuses
    /\ (done[p].valid /\ done[p].last # NoResponse
          /\ done[p].last.status \notin RedirectStatuses) =>
         (done[p].kind = "return" /\ done[p].response = done[p].last)

C6_Witness ==
  \E p \in DOMAIN pc :
    /\ done[p].valid /\ done[p].kind = "return"
    /\ done[p].response.status = 308
    /\ done[p].response.location # NoLocation
    /\ done[p].n = 2

\* one request per hop, and a failed warm-up ends the tool call
NoRetry ==
  \A p \in DOMAIN pc :
    /\ call[p].sent <= 6
    /\ fetchState[p].redirectCount <= 5
    /\ fetchState[p].phase = "delay" => call[p].sent = fetchState[p].redirectCount
    /\ fetchState[p].phase = "inflight" =>
         call[p].sent = fetchState[p].redirectCount + 1
    /\ done[p].valid => done[p].sent = done[p].depth + 1
    /\ (done[p].valid /\ done[p].error = "Transport") =>
         (fetchState[p].phase = "none" /\ (p # Main => pc[p] = "done"))
    /\ (p # Main /\ inv[p].warmup = "failed") =>
         /\ pc[p] = "done"
         /\ result[p].isError
         /\ ~ inv[p].targetSent

\* C7: no retries: a call has sent exactly one request per hop (so at most 6),
\* a transport failure ends it at once, and a tool call whose warm-up fetch
\* failed never requests the target URL and returns an isError result; given
\* that every request completes, every fetch call ends with a response or an
\* error.
C7_NoRetry ==
  /\ []NoRetry
  /\ \A p \in SingleTool \cup { Main } :
       (fetchState[p].phase # "none") ~> (done[p].valid \/ pc[p] = "connected")

C7_Witness ==
  \E p \in DOMAIN pc :
    /\ p # Main
    /\ inv[p].warmup = "failed"
    /\ done[p].valid /\ done[p].error = "Transport" /\ done[p].depth = 2
    /\ result[p].isError

\* the robots.txt content has a Disallow rule matching the path
Denied(content, path) ==
  \E i \in 1..Len(content) : SubSeq(path, 1, Len(content[i])) = content[i]

\* C8: when a tool call starts and the caller has not set ignoreRobotsText and
\* the robots policy denies the target path, the handler returns at once an
\* isError result that carries the target URL, no request is sent and the cookie
\* jar is unchanged; in every other case the warm-up fetch begins.
C8_PolicyShortCircuit ==
  [][\A p \in DOMAIN pc :
       (p # Main /\ pc[p] = "idle" /\ pc'[p] # "idle" /\ inv'[p].checked) =>
         LET url == params'[p].url
         IN  IF ~ params'[p].ignoreRobotsText /\ Denied(robotsTxtContent, url.path)
             THEN /\ pc'[p] = "done"
                  /\ result'[p].isError
                  /\ \E k \in DOMAIN Text(result'[p]) :
                       k # "error" /\ Text(result'[p])[k] = url
                  /\ fetchState'[p].phase = "none"
                  /\ ~ inv'[p].sent
                  /\ cookieJar' = cookieJar
             ELSE /\ pc'[p] = "warmup"
                  /\ fetchState'[p].phase = "delay"
                  /\ ~ result'[p].isError]_vars

C8_Witness ==
  \E p \in DOMAIN pc :
    /\ pc[p] = "done"
    /\ result[p].isError
    /\ "url" \in DOMAIN Text(result[p])
    /\ ~ inv[p].sent
    /\ ~ params[p].ignoreRobotsText
    /\ cookieJar # << >>

\* C9 (as claimed): every isError result of a pipeline carries an error message
\* and the attempted URL under the key searchUrl (search) or listingUrl
\* (listing details).
C9_ErrorResultShape ==
  \A p \in DOMAIN pc :
    (p # Main /\ pc[p] = "done" /\ result[p].isError /\ inv[p].checked) =>
      /\ "error" \in DOMAIN Text(result[p])
      /\ params[p].kind = "search" => "searchUrl" \in DOMAIN Text(result[p])
      /\ params[p].kind = "listing" => "listingUrl" \in DOMAIN Text(result[p])

\* C10 (as claimed): an extraction failure after a successful fetch yields an
\* isError result, and a result with isError false is returned only when the
\* payload was extracted.
C10_ExtractionFailureIsError ==
  \A p \in DOMAIN pc :
    (p # Main /\ pc[p] = "done") =>
      /\ inv[p].body \in { "noScript", "badJson", "noSubtree" } => result[p].isError
      /\ ~ result[p].isError => inv[p].body = "payload"

\* C11: no exception leaves the call-tool handler: whatever the tool name and
\* the arguments, and whatever failure occurs in a fetch, in a redirect chain or
\* in the extraction, a call that ends has returned a result object with a
\* content list of one text item and a boolean isError flag, and isError is
\* true when the handler threw before its pipeline started or a fetch failed.
C11_NoEscape ==
  \A p \in DOMAIN pc :
    /\ pc[p] # "escaped"
    /\ (p # Main /\ pc[p] = "done") =>
         /\ DOMAIN result[p] = { "content", "isError" }
         /\ result[p].isError \in BOOLEAN
         /\ Len(result[p].content) = 1
         /\ result[p].content[1].type = "text"
         /\ ~ inv[p].checked => result[p].isError
         /\ (done[p].valid /\ done[p].kind = "throw") => result[p].isError

\* a search call without arguments: the destructuring throws, the handler's
\* catch returns the error as a result
C11_Witness ==
  \E p \in DOMAIN pc :
    /\ pc[p] = "done"
    /\ params[p].kind = "search"
    /\ ~ inv[p].checked
    /\ result[p].isError
    /\ "plain" \in DOMAIN Text(result[p])

\* C12: the requests of one invocation are strictly sequential: it never has
\* more than one request in flight, no request is in flight while a fetch call
\* waits to send, and a request for the target URL is sent only after the
\* warm-up fetch, with every hop of its redirect chain, has returned its
\* response.
C12_Sequential ==
  \A p \in DOMAIN pc :
    /\ inv[p].inflight \in { 0, 1 }
    /\ inv[p].inflight = 1 <=> fetchState[p].phase = "inflight"
    /\ (p # Main /\ pc[p] \in { "pause", "target", "text" }) =>
         inv[p].warmup = "ok"
    /\ (p # Main /\ inv[p].targetSent) => inv[p].warmup = "ok"
    /\ (p # Main /\ pc[p] = "warmup") => ~ inv[p].targetSent

\* the second request of the target fetch is in flight after the warm-up ended
C12_Witness ==
  \E p \in DOMAIN pc :
    /\ p # Main
    /\ pc[p] = "target"
    /\ inv[p].targetSent
    /\ inv[p].warmup = "ok"
    /\ inv[p].inflight = 1
    /\ fetchState[p].redirectCount = 1

\* two invocations are running
BothRunning == \A p \in TwoTools : pc[p] \notin { "idle", "done" }

\* C13 (as claimed): while several invocations run on the shared jar, the jar
\* holds for every name that a response set exactly the value of the latest
\* Set-Cookie entry of that name, every name set is present, and the jar holds
\* no name and no value that no response sent.
C13_JarConsistent ==
  BothRunning =>
    /\ \A name \in DOMAIN lastRaw :
         MapHas(cookieJar, name) /\ MapGet(cookieJar, name) = lastRaw[name]
    /\ \A i \in 1..Len(cookieJar) :
         /\ cookieJar[i][1] \in DOMAIN lastRaw
         /\ cookieJar[i][2] = lastRaw[cookieJar[i][1]]
    /\ \A i, j \in 1..Len(cookieJar) : cookieJar[i][1] = cookieJar[j][1] => i = j

\* the jar agrees with the pairs as parseCookies splits them, in every
\* interleaving of two invocations
JarHoldsRecorded ==
  /\ \A name \in DOMAIN lastRecorded :
       MapHas(cookieJar, name) /\ MapGet(cookieJar, name) = lastRecorded[name]
  /\ \A i \in 1..Len(cookieJar) :
       /\ cookieJar[i][1] \in DOMAIN lastRecorded
       /\ cookieJar[i][2] = lastRecorded[cookieJar[i][1]]
  /\ \A i, j \in 1..Len(cookieJar) : cookieJar[i][1] = cookieJar[j][1] => i = j

\* C18 (as claimed): the Cookie header of every request equals the
\* serialization of the cookie jar at the moment the request is sent.
C18_HeaderIsJarAtSend ==
  \A p \in DOMAIN pc :
    fetchState[p].phase = "inflight" => ~ inv[p].stale

\* C18 (amended): the Cookie header of a request is the serialization of the
\* cookie jar at the moment its fetch call was entered, before the pacing delay,
\* and it is sent unchanged: a cookie recorded before the call was entered is
\* in it, a cookie that another invocation records during the delay is not.
C18_HeaderIsJarAtEntry ==
  [][\A p \in DOMAIN pc :
       /\ (fetchState'[p].phase = "delay" /\ fetchState'[p] # fetchState[p]) =>
            CookieOf(fetchState'[p].headers) = getCookieString(cookieJar')
       /\ (fetchState[p].phase = "delay" /\ fetchState'[p].phase = "delay") =>
            fetchState'[p].headers = fetchState[p].headers
       /\ (fetchState[p].phase = "delay" /\ fetchState'[p].phase = "inflight") =>
            /\ CookieOf(fetchState'[p].headers) = CookieOf(fetchState[p].headers)
            /\ inv'[p].stale
                 = (CookieOf(fetchState[p].headers) # getCookieString(cookieJar))]_vars

\* a request of one invocation is in flight without the cookie that the other
\* invocation recorded while the first was waiting to send
C18_Witness ==
  \E p, q \in TwoTools :
    /\ p # q
    /\ fetchState[p].phase = "inflight"
    /\ inv[p].stale
    /\ CookieOf(fetchState[p].headers) = << >>
    /\ cookieJar # << >>
    /\ pc[q] # "idle"

\* C14 (as claimed): every request of the program, the first of a fetch call
\* and every one that follows a redirect, goes to the host of BASE_URL.
C14_SingleOrigin ==
  \A p \in DOMAIN pc :
    fetchState[p].phase # "none" =>
      /\ fetchState[p].url.host = BASE_HOST
      /\ fetchState[p].headers.Host = BASE_HOST

\* the guest count a call asks for: the argument, or its documented default
GuestCount(args, key) ==
  IF key \in DOMAIN args THEN args[key]
  ELSE IF key = "adults" THEN 1 ELSE 0

\* the number of query parameters named key in a URL
Occurrences(url, key) ==
  Cardinality({ i \in 1..Len(url.search) : url.search[i][1] = key })

\* C15 (as claimed): in the search URL none of the four guest parameters is
\* present when all four guest counts are zero, and all four are present when
\* any guest count is positive.
C15_GuestsAllOrNothing ==
  \A p \in DOMAIN pc :
    (params[p].kind = "search" /\ inv[p].checked) =>
      LET any == \E key \in GuestKeys : GuestCount(params[p].args, key) > 0
      IN  /\ ~ any => \A key \in GuestKeys : Occurrences(params[p].url, key) = 0
          /\ any => \A key \in GuestKeys : Occurrences(params[p].url, key) >= 1

\* C15 (amended): in the search URL the guest parameters are all-or-nothing and
\* decided by adults + children alone: when that sum is zero none of adults,
\* children, infants, pets is present, whatever the infants and pets counts;
\* when it is positive each of the four is present once with its count.
C15_GuestsByAdultsAndChildren ==
  \A p \in DOMAIN pc :
    (params[p].kind = "search" /\ inv[p].checked) =>
      LET total == GuestCount(params[p].args, "adults")
                     + GuestCount(params[p].args, "children")
          url == IF fetchState[p].phase # "none" /\ pc[p] = "target"
                 THEN fetchState[p].url ELSE params[p].url
      IN  /\ total = 0 => \A key \in GuestKeys : Occurrences(url, key) = 0
          /\ total > 0 =>
               \A key \in GuestKeys :
                 /\ Occurrences(url, key) = 1
                 /\ << key, GuestCount(params[p].args, key) >>
                      \in { url.search[i] : i \in 1..Len(url.search) }

\* a search for no adults and no children but one infant and two pets is
\* requested without guest parameters
C15_Witness ==
  \E p \in DOMAIN pc :
    /\ params[p].kind = "search"
    /\ params[p].args = [adults |-> 0, children |-> 0, infants |-> 1, pets |-> 2]
    /\ pc[p] = "target"
    /\ fetchState[p].phase = "inflight"
    /\ fetchState[p].url.search = << >>

\* C19 (as claimed): in the listing URL each of adults, children, infants and
\* pets occurs at most once, and exactly once when the guest parameters are
\* emitted.
C19_ListingGuestsOnce ==
  \A p \in DOMAIN pc :
    (params[p].kind = "listing" /\ inv[p].checked) =>
      /\ \A key \in GuestKeys : Occurrences(params[p].url, key) <= 1
      /\ params[p].url.search # << >> =>
           \A key \in GuestKeys : Occurrences(params[p].url, key) = 1

AllowedSectionIds ==
  { JStr("LOCATION_DEFAULT"), JStr("POLICIES_DEFAULT"), JStr("HIGHLIGHTS_DEFAULT"),
    JStr("DESCRIPTION_DEFAULT"), JStr("AMENITIES_DEFAULT") }

\* the sectionId of every item of a page, in the order of the page
PageSectionIds(items) == [i \in 1..Len(items) |-> ObjGet(items[i], "sectionId")]

\* C16: in a listing-details success result built from a page payload, details
\* is a list, the id of every element is one of the five allow-listed section
\* identifiers, and the ids are those of the allow-listed sections of the page
\* in the order of the page: no other section appears.
C16_OnlyAllowedSections ==
  \A p \in DOMAIN pc :
    (p # Main /\ pc[p] = "done" /\ params[p].kind = "listing"
       /\ ~ result[p].isError /\ inv[p].body = "payload") =>
      LET details == Text(result[p]).details
          allowed == SelectSeq(PageSectionIds(inv[p].items),
                               LAMBDA id : id \in AllowedSectionIds)
      IN  /\ details.t = "arr"
          /\ Len(details.a) = Len(allowed)
          /\ \A i \in 1..Len(details.a) :
               /\ ObjGet(details.a[i], "id") \in AllowedSectionIds
               /\ ObjGet(details.a[i], "id") = allowed[i]

\* a page with the policies, sidebar and location sections gives the details
\* of policies and location, in that order
C16_Witness ==
  \E p \in DOMAIN pc :
    /\ pc[p] = "done" /\ params[p].kind = "listing"
    /\ inv[p].items = << PoliciesSection, SidebarSection, LocationSection >>
    /\ Len(Text(result[p]).details.a) = 2
    /\ ObjGet(Text(result[p]).details.a[1], "id") = JStr("POLICIES_DEFAULT")
    /\ ObjGet(Text(result[p]).details.a[2], "id") = JStr("LOCATION_DEFAULT")

\* C17 (as claimed): on every item of a page payload each projector gives its
\* own output again when applied to it: clean, pickBySchema with the search
\* schema, and flattenArraysInObject.
C17_ProjectorsIdempotent ==
  \A p \in DOMAIN pc :
    (p # Main /\ pc[p] = "done" /\ inv[p].body = "payload") =>
      \A i \in 1..Len(inv[p].items) :
        LET value == inv[p].items[i]
        IN  /\ cleanObject(cleanObject(value)) = cleanObject(value)
            /\ pickBySchema(pickBySchema(value, allowSearchResultSchema),
                            allowSearchResultSchema)
                 = pickBySchema(value, allowSearchResultSchema)
            /\ flattenArraysInObject(flattenArraysInObject(value))
                 = flattenArraysInObject(value)

\* pickBySchema and flattenArraysInObject alone
PickAndFlattenIdempotent ==
  \A p \in DOMAIN pc :
    (p # Main /\ pc[p] = "done" /\ inv[p].body = "payload") =>
      \A i \in 1..Len(inv[p].items) :
        LET value == inv[p].items[i]
        IN  /\ \A schema \in { allowSearchResultSchema, allowSectionSchema } :
                 pickBySchema(pickBySchema(value, schema), schema)
                   = pickBySchema(value, schema)
            /\ flattenArraysInObject(flattenArraysInObject(value))
                 = flattenArraysInObject(value)

\* what holds of the robots.txt content in every state
RobotsLoadedAtStartup ==
  /\ pc[Main] \in { "robots", "text" } =>
       (inv[Main].warmup = "ok" /\ ~ IGNORE_ROBOTS_TXT)
  /\ (pc[Main] = "robots" /\ fetchState[Main].redirectCount = 0) =>
       fetchState[Main].url = RobotsUrl
  /\ (inv[Main].warmup = "failed" \/ inv[Main].robots = "failed") =>
       (pc[Main] = "connected" /\ robotsTxtContent = << >>)
  /\ (IGNORE_ROBOTS_TXT \/ pc[Main] # "connected") => robotsTxtContent = << >>
  /\ \A p \in DOMAIN pc :
       p # Main =>
         /\ pc[p] # "idle" => pc[Main] = "connected"
         /\ (robotsTxtContent = << >> /\ pc[p] = "done" /\ inv[p].checked) =>
              Text(result[p]) # Text(PolicyResult(params[p].url))

\* C20: robots.txt is loaded at most once, at start-up and only after the
\* start-up warm-up fetch returned: its content changes only in the step that
\* reads the body of the robots.txt response, and never once the server is
\* connected; after a failed warm-up or robots.txt fetch, or with
\* --ignore-robots-txt, the content is empty for good, the server is connected
\* and takes tool calls, and no tool call returns the policy-violation result.
C20_RobotsOnceAtStartup ==
  /\ []RobotsLoadedAtStartup
  /\ [][/\ robotsTxtContent' # robotsTxtContent =>
             (pc[Main] = "text" /\ pc'[Main] = "connected"
                /\ inv[Main].robots = "none" /\ inv'[Main].robots = "ok")
        /\ pc[Main] = "connected" =>
             (pc'[Main] = "connected" /\ robotsTxtContent' = robotsTxtContent)]_vars

\* the robots.txt fetch failed at start-up; a tool call that does not ignore
\* the policy has fetched its page and returned a result
C20_Witness ==
  \E p \in DOMAIN pc :
    /\ p # Main
    /\ inv[Main].robots = "failed"
    /\ pc[Main] = "connected"
    /\ pc[p] = "done"
    /\ ~ params[p].ignoreRobotsText
    /\ inv[p].checked
    /\ ~ result[p].isError

====
